---- MODULE Spec2Model ----
(***************************************************************************)
(* A model of ralf's operator engine (src/ralf/operator.py): sharded       *)
(* operators with an output table, an LRU with cascading eviction, per-key *)
(* priority queues drained by worker threads, lineage maps, and the        *)
(* retraction protocol.                                                    *)
(*                                                                         *)
(* The operator graph is A -> B -> {C, L}: A is a source operator, B is    *)
(* the shard studied in detail, C is an eager child pool of three shards   *)
(* and L a lazy child pool.                                                *)
(***************************************************************************)
EXTENDS Integers, Sequences, FiniteSets, Bags, TLC

(***************************************************************************)
(* Bounds of the model.                                                    *)
(***************************************************************************)
\* send calls made by the callers of the cache specification.
MaxSends == 5
\* Records enqueued by the callers of the worker specification.
MaxEvents == 3
\* Records the source operator sends in the retraction specification.
MaxSourceSends == 2
\* Records the source operator sends in the chain specification.
MaxChainSends == 1
\* Largest cache_size explored where a cache is configured.
MaxCache == 2
\* Largest num_worker_threads explored on the eager shard under study.
MaxWorkers == 2

(***************************************************************************)
(* Keys, records and the sentinels of the code.                            *)
(***************************************************************************)
Keys == {"x", "y", "z", "p", "q", "d"}

\* Python's None, and on_delete_record's default return value; both are
\* "not a Record" for isinstance(record, Record).
None == [key |-> "None", time |-> 0, src |-> "None"]
NOT_IMPLEMENTED == [key |-> "NOT_IMPLEMENTED", time |-> 0, src |-> "None"]

\* A Record: its primary key, its processing time, and the key of the
\* record it was computed from by on_record ("None" for a source record).
Rec(k, t, from) == [key |-> k, time |-> t, src |-> from]
IsRecord(r) == r.key \in Keys

Range(s) == {s[i] : i \in 1..Len(s)}

(***************************************************************************)
(* The operator graph: pools, their shards, and routing.                   *)
(***************************************************************************)
Pools == {"A", "B", "C", "L"}

NumShards(pool) == IF pool = "C" THEN 3 ELSE 1

Shards == UNION {{<<o, i>> : i \in 0..(NumShards(o) - 1)} : o \in Pools}

ShA == <<"A", 0>>
ShB == <<"B", 0>>
ShC == <<"C", 2>>

\* The shards whose state is tracked: the source, the shard under study and
\* the shard of C that owns keys z and d.
Nodes == {ShA, ShB, ShC}

\* self._parents and self._children of the shards of a pool, as lists.
Parents(pool) ==
    CASE pool = "B" -> <<"A">>
      [] pool = "C" -> <<"B">>
      [] pool = "L" -> <<"B">>
      [] OTHER -> <<>>

Children(pool) ==
    CASE pool = "A" -> <<"B">>
      [] pool = "B" -> <<"C", "L">>
      [] OTHER -> <<>>

IsLazy(pool) == pool = "L"

\* int(sha1(key).hexdigest(), 16) taken modulo 6, which fixes the residue
\* modulo every shard count 1, 2, 3 used here.
HashKey(k) ==
    CASE k = "x" -> 0
      [] k = "y" -> 0
      [] k = "z" -> 2
      [] k = "p" -> 5
      [] k = "q" -> 0
      [] k = "d" -> 2

ChooseActor(pool, k) == <<pool, HashKey(k) % NumShards(pool)>>

(***************************************************************************)
(* The state.                                                              *)
(***************************************************************************)
VARIABLES
    table,          \* [shard -> [key -> Record or None]]: self._table
    lru,            \* [shard -> sequence of keys], oldest first: self._lru
    cache_size,     \* [shard -> Nat]: self._cache_size, fixed at construction
    events,         \* [shard -> [key -> set of records]]: self._events
    flag,           \* [shard -> BOOLEAN]: self._empty_queue_event
    shedding,       \* [shard -> policy name]: self._load_shedding_policy
    key_to_parents, \* [shard -> [key -> sequence of keys]]
    parent_to_keys, \* [shard -> [key -> sequence of keys]]
    wpc,            \* [shard -> [worker -> position in _worker]]
    wkey,           \* [shard -> [worker -> chosen_key]]
    wevent,         \* [shard -> [worker -> the record of the popped event]]
    loop,           \* [shard -> position of the event loop inside _on_record]
    coros,          \* [shard -> sequence of suspended retract coroutines]
    raised,         \* [shard -> set of exceptions raised by its handlers]
    live,           \* the shards scheduled in this behaviour; calls to the
                    \* other shards leave the model when they are issued
    net,            \* bag of remote calls to live shards, not yet delivered
    issued,         \* the remote calls issued by the latest handler that
                    \* issued any
    clock           \* processing time of the next record a caller creates

vars == <<table, lru, cache_size, events, flag, shedding, key_to_parents,
          parent_to_keys, wpc, wkey, wevent, loop, coros, raised, live, net,
          issued, clock>>

Workers == 1..MaxWorkers

EmptyTable == [k \in Keys |-> None]
NoLineage == [k \in Keys |-> <<>>]

(***************************************************************************)
(* The table of a shard (ralf.state.TableState).                           *)
(***************************************************************************)
TableUpdate(t, r) == [t EXCEPT ![r.key] = r]
TableDelete(t, k) == [t EXCEPT ![k] = None]
\* point_query raises KeyError exactly when this is FALSE.
TableHas(t, k) == t[k] # None

(***************************************************************************)
(* Remote calls.                                                           *)
(***************************************************************************)
Msg(to, op, k, r, u) == [to |-> to, op |-> op, key |-> k, rec |-> r, upd |-> u]
EvictMsg(pool, k) == Msg(ChooseActor(pool, k), "evict", k, None, None)
OnRecordMsg(pool, r) == Msg(ChooseActor(pool, r.key), "_on_record", r.key, r, None)
RetractMsg(pool, k, old, new) == Msg(ChooseActor(pool, k), "retract", k, old, new)

\* handle.method.remote(...) for each call of msgs.
Issue(msgs) ==
    /\ net' = net (+) SetToBag({m \in msgs : m.to \in live})
    /\ issued' = msgs

(***************************************************************************)
(* send (lines 340-373), as functions of the state before the call.        *)
(***************************************************************************)
\* A variant of LruTouch that leaves a key already present where it is.
LruTouchNoMove(l, k) == IF k \in Range(l) THEN l ELSE Append(l, k)

\* self._lru.pop(key, None); self._lru[key] = key
LruTouch(l, k) == Append(SelectSeq(l, LAMBDA e : e # k), k)

\* The keys send evicts: the head of the LRU when it outgrew cache_size.
SendEvicted(s, r) ==
    IF cache_size[s] > 0 /\ Len(LruTouch(lru[s], r.key)) > cache_size[s]
    THEN {Head(LruTouch(lru[s], r.key))}
    ELSE {}

\* A variant of SendLru that never pops the head.
SendLruNoTrim(s, r) ==
    IF cache_size[s] > 0 THEN LruTouch(lru[s], r.key) ELSE lru[s]

SendLru(s, r) ==
    IF cache_size[s] > 0
    THEN IF SendEvicted(s, r) # {}
         THEN Tail(LruTouch(lru[s], r.key))
         ELSE LruTouch(lru[s], r.key)
    ELSE lru[s]

\* Only self._table.update(record): the evicted key's row is left in place.
SendTable(s, r) == TableUpdate(table[s], r)

\* A variant of SendEvictMsgs that tells the parent pools only.
SendEvictMsgsParentsOnly(s, r) ==
    {EvictMsg(Parents(s[1])[i], k) :
        i \in 1..Len(Parents(s[1])), k \in SendEvicted(s, r)}

\* evict to the owning shard of every parent and child pool.
SendEvictMsgs(s, r) ==
    {EvictMsg(Parents(s[1])[i], k) :
        i \in 1..Len(Parents(s[1])), k \in SendEvicted(s, r)}
    \cup
    {EvictMsg(Children(s[1])[i], k) :
        i \in 1..Len(Children(s[1])), k \in SendEvicted(s, r)}

\* A variant of SendForwardMsgs that pushes to lazy child pools as well.
SendForwardMsgsAll(s, r) ==
    {OnRecordMsg(Children(s[1])[i], r) : i \in 1..Len(Children(s[1]))}

\* _on_record to the owning shard of every child pool that is not lazy.
SendForwardMsgs(s, r) ==
    {OnRecordMsg(Children(s[1])[i], r) :
        i \in {j \in 1..Len(Children(s[1])) : ~IsLazy(Children(s[1])[j])}}

SendMsgs(s, r) == SendEvictMsgs(s, r) \cup SendForwardMsgs(s, r)

\* The effect of send(record) on shard s.
Send(s, r) ==
    /\ table' = [table EXCEPT ![s] = SendTable(s, r)]
    /\ lru' = [lru EXCEPT ![s] = SendLru(s, r)]
    /\ Issue(SendMsgs(s, r))

(***************************************************************************)
(* evict (lines 375-377).                                                  *)
(***************************************************************************)
\* A variant of Evict that recurses: the key leaves every shard.
EvictCascade(s, k) ==
    /\ table' = [n \in Nodes |-> TableDelete(table[n], k)]
    /\ lru' = [n \in Nodes |-> SelectSeq(lru[n], LAMBDA e : e # k)]

Evict(s, k) ==
    /\ table' = [table EXCEPT ![s] = TableDelete(table[s], k)]
    /\ lru' = [lru EXCEPT ![s] = SelectSeq(lru[s], LAMBDA e : e # k)]

(***************************************************************************)
(* Construction (Operator.__init__, lines 122-164).                        *)
(***************************************************************************)
InitShards ==
    /\ table = [s \in Nodes |-> EmptyTable]
    /\ lru = [s \in Nodes |-> <<>>]
    /\ events = [s \in Nodes |-> [k \in Keys |-> {}]]
    /\ flag = [s \in Nodes |-> FALSE]
    /\ key_to_parents = [s \in Nodes |-> NoLineage]
    /\ parent_to_keys = [s \in Nodes |-> NoLineage]
    /\ wkey = [s \in Nodes |-> [w \in Workers |-> "None"]]
    /\ wevent = [s \in Nodes |-> [w \in Workers |-> None]]
    /\ loop = [s \in Nodes |-> "idle"]
    /\ coros = [s \in Nodes |-> <<>>]
    /\ raised = [s \in Nodes |-> {}]
    /\ net = EmptyBag
    /\ issued = {}
    /\ clock = 1

(***************************************************************************)
(* The cache specification: shard B with a cache, called with send and     *)
(* evict one call at a time.                                               *)
(***************************************************************************)
CacheKeys == {"x", "y", "z"}

InitCache ==
    /\ InitShards
    /\ live = {ShB}
    /\ \E c \in 1..MaxCache :
         cache_size = [s \in Nodes |-> IF s = ShB THEN c ELSE 0]
    /\ shedding = [s \in Nodes |-> "always_process"]
    /\ wpc = [s \in Nodes |-> [w \in Workers |-> "none"]]

\* A caller sends a fresh record with key k on shard s.
CallSend(s, k) ==
    /\ clock <= MaxSends
    /\ Send(s, Rec(k, clock, "None"))
    /\ clock' = clock + 1
    /\ UNCHANGED <<cache_size, events, flag, shedding, key_to_parents,
                   parent_to_keys, wpc, wkey, wevent, loop, coros, raised,
                   live>>

\* A neighbouring shard's eviction reaches shard s.
CallEvict(s, k) ==
    /\ Evict(s, k)
    /\ UNCHANGED <<cache_size, events, flag, shedding, key_to_parents,
                   parent_to_keys, wpc, wkey, wevent, loop, coros, raised,
                   net, clock, live, issued>>

NextCache ==
    \/ \E k \in CacheKeys : CallSend(ShB, k)
    \/ \E k \in CacheKeys : CallEvict(ShB, k)

SpecCache == InitCache /\ [][NextCache]_vars

(***************************************************************************)
(* Policies (ralf.policies) and the operator's on_record.                  *)
(***************************************************************************)
\* processing_policy.fifo: the record with the earlier processing time first.
Fifo(a, b) == a.time < b.time

\* Event.__lt__ (lines 91-92).
EventLt(a, b) == Fifo(a, b)

\* load_shedding_policy(candidate, current): process the candidate or not.
LoadShedding(policy, candidate, current) == policy = "always_process"

\* The key on_record computes from a parent key: B folds p and q into d,
\* every other operator passes the key through.
KeyMap(pool, k) == IF pool = "B" /\ k \in {"p", "q"} THEN "d" ELSE k

\* on_record returns Optional[Record]: B filters key z out (returns None).
OnRecordFilters(s, r) == s[1] = "B" /\ r.key = "z"

\* on_record is operator code and may raise: B fails on a record of key d
\* with the KeyError of a lookup that misses.
OnRecordRaises(s, r) == s[1] = "B" /\ r.key = "d"

\* on_record: the output record, tagged with the key it was computed from.
OnRecord(s, r) ==
    IF OnRecordFilters(s, r)
    THEN None
    ELSE Rec(KeyMap(s[1], r.key), r.time, r.key)

(***************************************************************************)
(* _on_record (lines 331-338): runs on the shard's event loop; the put and *)
(* the set of the shared flag are separate steps for the worker threads.   *)
(***************************************************************************)
OnRecordPut(s, r) ==
    /\ loop[s] = "idle"
    /\ events' = [events EXCEPT ![s][r.key] = @ \cup {r}]
    /\ loop' = [loop EXCEPT ![s] = "set"]

\* A variant of OnRecordSet that returns without setting the flag.
OnRecordSetLost(s) ==
    /\ loop[s] = "set"
    /\ loop' = [loop EXCEPT ![s] = "idle"]
    /\ UNCHANGED <<table, lru, cache_size, events, flag, shedding,
                   key_to_parents, parent_to_keys, wpc, wkey, wevent, coros,
                   raised, net, clock, live, issued>>

OnRecordSet(s) ==
    /\ loop[s] = "set"
    /\ flag' = [flag EXCEPT ![s] = TRUE]
    /\ loop' = [loop EXCEPT ![s] = "idle"]
    /\ UNCHANGED <<table, lru, cache_size, events, shedding, key_to_parents,
                   parent_to_keys, wpc, wkey, wevent, coros, raised, net,
                   clock, live, issued>>

(***************************************************************************)
(* _worker (lines 198-217), one step per shared-state access.              *)
(***************************************************************************)
\* PriorityQueue.get on a non-empty queue: an event no other event precedes.
QueueMin(q) == {e \in q : \A o \in q \ {e} : ~EventLt(o, e)}

NonEmptyQueues(s) == {k \in Keys : events[s][k] # {}}

\* Lines 200-205: snapshot the non-empty queues, then wait or choose a key.
WSnapshot(s, w) ==
    /\ wpc[s][w] = "loop"
    /\ IF NonEmptyQueues(s) = {}
       THEN /\ wpc' = [wpc EXCEPT ![s][w] = "wait"]
            /\ UNCHANGED wkey
       ELSE \E k \in NonEmptyQueues(s) :
              /\ wkey' = [wkey EXCEPT ![s][w] = k]
              /\ wpc' = [wpc EXCEPT ![s][w] = "get"]
    /\ UNCHANGED <<table, lru, cache_size, events, flag, shedding,
                   key_to_parents, parent_to_keys, wevent, loop, coros,
                   raised, net, clock, live, issued>>

\* Line 203: self._empty_queue_event.wait() returns once the flag is set.
WWait(s, w) ==
    /\ wpc[s][w] = "wait"
    /\ flag[s]
    /\ wpc' = [wpc EXCEPT ![s][w] = "loop"]
    /\ UNCHANGED <<table, lru, cache_size, events, flag, shedding,
                   key_to_parents, parent_to_keys, wkey, wevent, loop, coros,
                   raised, net, clock, live, issued>>

\* Line 206: self._events[chosen_key].get() blocks while the queue is empty.
WGet(s, w) ==
    /\ wpc[s][w] = "get"
    /\ \E e \in QueueMin(events[s][wkey[s][w]]) :
         /\ events' = [events EXCEPT ![s][wkey[s][w]] = @ \ {e}]
         /\ wevent' = [wevent EXCEPT ![s][w] = e]
    /\ wpc' = [wpc EXCEPT ![s][w] = "clear"]
    /\ UNCHANGED <<table, lru, cache_size, flag, shedding, key_to_parents,
                   parent_to_keys, wkey, loop, coros, raised, net, clock,
                   live, issued>>

\* Line 207: self._empty_queue_event.clear()
WClear(s, w) ==
    /\ wpc[s][w] = "clear"
    /\ flag' = [flag EXCEPT ![s] = FALSE]
    /\ wpc' = [wpc EXCEPT ![s][w] = "lookup"]
    /\ UNCHANGED <<table, lru, cache_size, events, shedding, key_to_parents,
                   parent_to_keys, wkey, wevent, loop, coros, raised, net,
                   clock, live, issued>>

\* Lines 209-215: look the event's key up; a KeyError takes the worker to
\* the except clause (line 215), an accepting policy to line 213, both of
\* which process the event; a rejecting policy drops it.
WLookup(s, w) ==
    /\ wpc[s][w] = "lookup"
    /\ IF ~TableHas(table[s], wevent[s][w].key)
       THEN /\ wpc' = [wpc EXCEPT ![s][w] = "except"]
            /\ UNCHANGED wevent
       ELSE IF LoadShedding(shedding[s], wevent[s][w],
                            table[s][wevent[s][w].key])
       THEN /\ wpc' = [wpc EXCEPT ![s][w] = "process"]
            /\ UNCHANGED wevent
       ELSE /\ wpc' = [wpc EXCEPT ![s][w] = "loop"]
            /\ wevent' = [wevent EXCEPT ![s][w] = None]
    /\ UNCHANGED <<table, lru, cache_size, events, flag, shedding,
                   key_to_parents, parent_to_keys, wkey, loop, coros, raised,
                   net, clock, live, issued>>

\* The exception _on_record_helper ends with for record r, "None" if it
\* returns: on_record's own error, or the AttributeError of result.key at
\* line 321 when on_record returned None.
HelperError(s, r) ==
    CASE OnRecordRaises(s, r) -> "KeyError"
      [] OnRecord(s, r) = None -> "AttributeError"
      [] OTHER -> "None"

\* A variant of OnRecordHelper that records the lineage in parent_to_keys
\* only.
OnRecordHelperOneMap(s, r) ==
    IF HelperError(s, r) # "None"
    THEN UNCHANGED <<key_to_parents, parent_to_keys, table, lru, net, issued>>
    ELSE /\ UNCHANGED key_to_parents
         /\ parent_to_keys' =
              [parent_to_keys EXCEPT ![s][r.key] = Append(@, OnRecord(s, r).key)]
         /\ Send(s, OnRecord(s, r))

\* _on_record_helper (lines 318-329): on_record, the lineage, then send.
OnRecordHelper(s, r) ==
    IF HelperError(s, r) # "None"
    THEN UNCHANGED <<key_to_parents, parent_to_keys, table, lru, net, issued>>
    ELSE /\ key_to_parents' =
              [key_to_parents EXCEPT ![s][OnRecord(s, r).key] = Append(@, r.key)]
         /\ parent_to_keys' =
              [parent_to_keys EXCEPT ![s][r.key] = Append(@, OnRecord(s, r).key)]
         /\ Send(s, OnRecord(s, r))

\* event.process() (lines 213, 215, 97-98).  At line 213 ("process") the
\* call is inside the try: a KeyError raised by the work is caught by the
\* except clause of line 214, which calls process() again ("again").  At
\* line 215, reached from a failed lookup ("except") or from such a KeyError,
\* nothing catches an exception, and any exception but a KeyError at line
\* 213 leaves _worker and ends the thread.
WProcess(s, w) ==
    /\ wpc[s][w] \in {"process", "except", "again"}
    /\ OnRecordHelper(s, wevent[s][w])
    /\ wpc' = [wpc EXCEPT ![s][w] =
                 CASE HelperError(s, wevent[s][w]) = "None" -> "loop"
                   [] /\ HelperError(s, wevent[s][w]) = "KeyError"
                      /\ wpc[s][w] = "process" -> "again"
                   [] OTHER -> "dead"]
    /\ wevent' = [wevent EXCEPT ![s][w] =
                    IF /\ HelperError(s, wevent[s][w]) = "KeyError"
                       /\ wpc[s][w] = "process"
                    THEN @ ELSE None]
    /\ raised' = [raised EXCEPT ![s] =
                    IF \/ HelperError(s, wevent[s][w]) = "None"
                       \/ /\ HelperError(s, wevent[s][w]) = "KeyError"
                          /\ wpc[s][w] = "process"
                    THEN @ ELSE @ \cup {HelperError(s, wevent[s][w])}]
    /\ UNCHANGED <<cache_size, events, flag, shedding, wkey, loop, coros,
                   clock, live>>

WorkerStep(s, w) ==
    \/ WSnapshot(s, w)
    \/ WWait(s, w)
    \/ WGet(s, w)
    \/ WClear(s, w)
    \/ WLookup(s, w)
    \/ WProcess(s, w)

(***************************************************************************)
(* The worker specification: eager shard B with one to MaxWorkers worker   *)
(* threads; callers enqueue fresh records, stamped in the order of arrival.*)
(***************************************************************************)
WorkerKeys == {"x", "y"}

InitWorker ==
    /\ InitShards
    /\ live = {ShB}
    /\ cache_size = [s \in Nodes |-> 0]
    /\ \E pol \in {"always_process", "never_process"} :
         shedding = [s \in Nodes |-> IF s = ShB THEN pol ELSE "always_process"]
    /\ \E n \in 1..MaxWorkers :
         wpc = [s \in Nodes |-> [w \in Workers |->
                   IF s = ShB /\ w <= n THEN "loop" ELSE "none"]]

\* A caller's _on_record(record) reaches shard s with a fresh record.
CallOnRecord(s, k) ==
    /\ clock <= MaxEvents
    /\ OnRecordPut(s, Rec(k, clock, "None"))
    /\ clock' = clock + 1
    /\ UNCHANGED <<table, lru, cache_size, flag, shedding, key_to_parents,
                   parent_to_keys, wpc, wkey, wevent, coros, raised, net,
                   live, issued>>

NextWorker ==
    \/ \E k \in WorkerKeys : CallOnRecord(ShB, k)
    \/ OnRecordSet(ShB)
    \/ \E w \in Workers : WorkerStep(ShB, w)

SpecWorker == InitWorker /\ [][NextWorker]_vars

\* The same behaviours under the scheduling of the code: the event loop
\* finishes _on_record once it has started it, and every worker thread that
\* can take a step eventually takes one.
SpecWorkerFair ==
    /\ SpecWorker
    /\ WF_vars(OnRecordSet(ShB))
    /\ \A w \in Workers : WF_vars(WorkerStep(ShB, w))

(***************************************************************************)
(* The failure specification: the worker specification with records whose  *)
(* processing fails: key p is folded into d, key z is filtered out by      *)
(* on_record, and on_record raises KeyError on key d.                      *)
(***************************************************************************)
FailureKeys == {"p", "z", "d"}

NextFailure ==
    \/ \E k \in FailureKeys : CallOnRecord(ShB, k)
    \/ OnRecordSet(ShB)
    \/ \E w \in Workers : WorkerStep(ShB, w)

SpecFailure == InitWorker /\ [][NextFailure]_vars

(***************************************************************************)
(* Delivery of remote calls to the handlers of the destination shard.      *)
(***************************************************************************)
InFlight(op, s) == {m \in BagToSet(net) : m.op = op /\ m.to = s}

\* _on_record.remote(record) arrives: the put half of _on_record.
DeliverOnRecord(s) ==
    \E m \in InFlight("_on_record", s) :
        /\ OnRecordPut(s, m.rec)
        /\ net' = net (-) SetToBag({m})
        /\ UNCHANGED <<issued, table, lru, cache_size, flag, shedding,
                       key_to_parents, parent_to_keys, wpc, wkey, wevent,
                       coros, raised, clock, live>>

(***************************************************************************)
(* retract_key (lines 249-261).                                            *)
(***************************************************************************)
\* A variant of RetractKeyMsgs that skips lazy child pools, as send does.
RetractKeyMsgsEager(s, k) ==
    {RetractMsg(Children(s[1])[i], k, table[s][k], None) :
        i \in {j \in 1..Len(Children(s[1])) : ~IsLazy(Children(s[1])[j])}}

RetractKeyMsgs(s, k) ==
    {RetractMsg(Children(s[1])[i], k, table[s][k], None) :
        i \in 1..Len(Children(s[1]))}

RetractKey(s, k) ==
    /\ loop[s] = "idle"
    /\ IF TableHas(table[s], k)
       THEN /\ table' = [table EXCEPT ![s] = TableDelete(table[s], k)]
            /\ Issue(RetractKeyMsgs(s, k))
            /\ UNCHANGED raised
       ELSE \* point_query raises KeyError: nothing is deleted or propagated
            /\ raised' = [raised EXCEPT ![s] = @ \cup {"KeyError"}]
            /\ UNCHANGED <<table, net, issued>>
    /\ UNCHANGED <<lru, cache_size, events, flag, shedding, key_to_parents,
                   parent_to_keys, wpc, wkey, wevent, loop, coros, clock,
                   live>>

(***************************************************************************)
(* retract (lines 264-316), a coroutine on the shard's event loop.  It     *)
(* holds the loop while it runs and gives it up at the await of line 292;  *)
(* `keys` is the live list parent_to_keys[deleted.key], walked by index.   *)
(***************************************************************************)
Coro(deleted, upd, idx, pc) ==
    [deleted |-> deleted, upd |-> upd, idx |-> idx, pc |-> pc]

RemoveAt(seq, i) == SubSeq(seq, 1, i - 1) \o SubSeq(seq, i + 1, Len(seq))

\* Line 278: the keys affected by the deleted parent record.
CoKeys(s, c) == parent_to_keys[s][c.deleted.key]
\* Line 280: the key of the current iteration.
CoKey(s, c) == CoKeys(s, c)[c.idx]

\* retract.remote(deleted, updated) arrives and the coroutine starts.
DeliverRetract(s) ==
    /\ loop[s] = "idle"
    /\ \E m \in InFlight("retract", s) :
         /\ net' = net (-) SetToBag({m})
         /\ coros' = [coros EXCEPT ![s] = Append(@, Coro(m.rec, m.upd, 1, "run"))]
    /\ loop' = [loop EXCEPT ![s] = "retract"]
    /\ UNCHANGED <<issued, table, lru, cache_size, events, flag, shedding,
                   key_to_parents, parent_to_keys, wpc, wkey, wevent, raised,
                   clock, live>>

\* A variant of RetractDone in which the exhausted call never returns.
RetractDoneNever(s, i) ==
    /\ coros[s][i].pc = "run"
    /\ coros[s][i].idx > Len(CoKeys(s, coros[s][i]))
    /\ loop' = [loop EXCEPT ![s] = "idle"]
    /\ UNCHANGED <<table, lru, cache_size, events, flag, shedding,
                   key_to_parents, parent_to_keys, wpc, wkey, wevent, raised,
                   net, clock, live, issued, coros>>

\* Line 280: the for loop is exhausted and the call returns.
RetractDone(s, i) ==
    /\ coros[s][i].pc = "run"
    /\ coros[s][i].idx > Len(CoKeys(s, coros[s][i]))
    /\ coros' = [coros EXCEPT ![s] = RemoveAt(@, i)]
    /\ loop' = [loop EXCEPT ![s] = "idle"]
    /\ UNCHANGED <<table, lru, cache_size, events, flag, shedding,
                   key_to_parents, parent_to_keys, wpc, wkey, wevent, raised,
                   net, clock, live, issued>>

\* What an operator's on_delete_record may return for a deleted parent
\* record: the default sentinel, None, or a repaired record of some key.
OnDeleteKeys == {"d", "x"}
OnDeleteResults(r) ==
    {NOT_IMPLEMENTED, None} \cup {Rec(k, r.time, "None") : k \in OnDeleteKeys}

\* on_records (lines 245-247): _on_record is a coroutine function, so each
\* call only builds a coroutine object that is never awaited; nothing is
\* enqueued and the method returns None.
OnRecords(s, records) == None

\* Lines 289-298: the current records of the key's parents, fetched from
\* every parent pool; a failed get (KeyError) is filtered out.
Fetched(s, key) ==
    LET pairs == {<<i, j>> \in (1..Len(Parents(s[1])))
                                \X (1..Len(key_to_parents[s][key])) :
                     TableHas(table[ChooseActor(Parents(s[1])[i],
                                                key_to_parents[s][key][j])],
                              key_to_parents[s][key][j])}
    IN  {table[ChooseActor(Parents(s[1])[pr[1]], key_to_parents[s][key][pr[2]])]
              [key_to_parents[s][key][pr[2]]] : pr \in pairs}

RetractChildMsgs(s, key, orig, rec) ==
    {RetractMsg(Children(s[1])[i], key, orig, rec) :
        i \in 1..Len(Children(s[1]))}

\* A variant of RetractStore without the assertion of line 306.
RetractStoreNoAssert(s, i, key, rec) ==
    IF ~TableHas(table[s], key)
    THEN /\ raised' = [raised EXCEPT ![s] = @ \cup {"KeyError"}]
         /\ coros' = [coros EXCEPT ![s] = RemoveAt(@, i)]
         /\ loop' = [loop EXCEPT ![s] = "idle"]
         /\ UNCHANGED <<table, net, issued>>
    ELSE /\ table' = [table EXCEPT ![s] =
                        IF rec # None
                        THEN TableUpdate(TableDelete(@, key), rec)
                        ELSE TableDelete(@, key)]
         /\ Issue(RetractChildMsgs(s, key, table[s][key], rec))
         /\ coros' = [coros EXCEPT ![s][i].idx = @ + 1, ![s][i].pc = "run"]
         /\ loop' = [loop EXCEPT ![s] = "retract"]
         /\ UNCHANGED raised

\* Lines 306-316 for the repaired record rec (a Record or None) of `key`:
\* the assertion, the point query, the table update, the children.
RetractStore(s, i, key, rec) ==
    IF rec # None /\ rec.key # key
    THEN \* AssertionError: the call fails here
         /\ raised' = [raised EXCEPT ![s] = @ \cup {"AssertionError"}]
         /\ coros' = [coros EXCEPT ![s] = RemoveAt(@, i)]
         /\ loop' = [loop EXCEPT ![s] = "idle"]
         /\ UNCHANGED <<table, net, issued>>
    ELSE IF ~TableHas(table[s], key)
    THEN \* point_query raises KeyError: the call fails here
         /\ raised' = [raised EXCEPT ![s] = @ \cup {"KeyError"}]
         /\ coros' = [coros EXCEPT ![s] = RemoveAt(@, i)]
         /\ loop' = [loop EXCEPT ![s] = "idle"]
         /\ UNCHANGED <<table, net, issued>>
    ELSE /\ table' = [table EXCEPT ![s] =
                        IF rec # None
                        THEN TableUpdate(TableDelete(@, key), rec)
                        ELSE TableDelete(@, key)]
         /\ Issue(RetractChildMsgs(s, key, table[s][key], rec))
         /\ coros' = [coros EXCEPT ![s][i].idx = @ + 1, ![s][i].pc = "run"]
         /\ loop' = [loop EXCEPT ![s] = "retract"]
         /\ UNCHANGED raised

\* Lines 283-286 and 306-316: on_delete_record returned a Record, which is
\* stored without leaving the event loop.
RetractIncremental(s, i, rec) ==
    /\ coros[s][i].pc = "run"
    /\ coros[s][i].idx <= Len(CoKeys(s, coros[s][i]))
    /\ IsRecord(rec)
    /\ RetractStore(s, i, CoKey(s, coros[s][i]), rec)
    /\ UNCHANGED <<lru, cache_size, events, flag, shedding, key_to_parents,
                   parent_to_keys, wpc, wkey, wevent, clock, live>>

\* Lines 283-295: on_delete_record returned no Record; the gets are issued
\* and the coroutine awaits them, giving up the event loop.
RetractFallback(s, i, rec) ==
    /\ coros[s][i].pc = "run"
    /\ coros[s][i].idx <= Len(CoKeys(s, coros[s][i]))
    /\ ~IsRecord(rec)
    /\ coros' = [coros EXCEPT ![s][i].pc = "await"]
    /\ loop' = [loop EXCEPT ![s] = "idle"]
    /\ UNCHANGED <<table, lru, cache_size, events, flag, shedding,
                   key_to_parents, parent_to_keys, wpc, wkey, wevent, raised,
                   net, clock, live, issued>>

\* Lines 298-316: the gather completes; the surviving parent records go
\* through on_records and its result is stored.
RetractResume(s, i) ==
    /\ loop[s] = "idle"
    /\ coros[s][i].pc = "await"
    /\ RetractStore(s, i, CoKey(s, coros[s][i]),
                    OnRecords(s, Fetched(s, CoKey(s, coros[s][i]))))
    /\ UNCHANGED <<lru, cache_size, events, flag, shedding, key_to_parents,
                   parent_to_keys, wpc, wkey, wevent, clock, live>>

RetractStep(s) ==
    \E i \in 1..Len(coros[s]) :
        \/ RetractDone(s, i)
        \/ \E rec \in OnDeleteResults(coros[s][i].deleted) :
             \/ RetractIncremental(s, i, rec)
             \/ RetractFallback(s, i, rec)
        \/ RetractResume(s, i)

(***************************************************************************)
(* The retraction specification: source A sends and retracts keys p and q; *)
(* eager child B, with one worker, derives d from them and handles the     *)
(* retract calls; the calls B issues to C and L stay in flight.            *)
(***************************************************************************)
SourceKeys == {"p", "q"}

InitRetract ==
    /\ InitShards
    /\ live = {ShA, ShB}
    /\ cache_size = [s \in Nodes |-> 0]
    /\ shedding = [s \in Nodes |-> "always_process"]
    /\ wpc = [s \in Nodes |-> [w \in Workers |->
                 IF s = ShB /\ w = 1 THEN "loop" ELSE "none"]]

CallSourceSend(s, k) ==
    /\ clock <= MaxSourceSends
    /\ Send(s, Rec(k, clock, "None"))
    /\ clock' = clock + 1
    /\ UNCHANGED <<cache_size, events, flag, shedding, key_to_parents,
                   parent_to_keys, wpc, wkey, wevent, loop, coros, raised,
                   live>>

\* A caller retracts a key the source holds.
CallRetractKey(s, k) ==
    /\ TableHas(table[s], k)
    /\ RetractKey(s, k)

NextRetract ==
    \/ \E k \in SourceKeys : CallSourceSend(ShA, k)
    \/ \E k \in SourceKeys : CallRetractKey(ShA, k)
    \/ DeliverOnRecord(ShB)
    \/ OnRecordSet(ShB)
    \/ WorkerStep(ShB, 1)
    \/ DeliverRetract(ShB)
    \/ RetractStep(ShB)

SpecRetract == InitRetract /\ [][NextRetract]_vars

(***************************************************************************)
(* The chain specification: the whole path A -> B -> C for key p.  A sends *)
(* p, B derives d from it, C (the shard owning d) passes d through; keys   *)
(* are retracted on A and on B, and the retract calls travel down to C.    *)
(* B keeps an LRU of one key.  The calls to the lazy pool L stay in flight; *)
(* an eviction of d by L reaches its parent B as an evict call.            *)
(***************************************************************************)
ChainKeys == {"p"}

InitChain ==
    /\ InitShards
    /\ live = {ShA, ShB, ShC}
    /\ cache_size = [s \in Nodes |-> IF s = ShB THEN 1 ELSE 0]
    /\ shedding = [s \in Nodes |-> "always_process"]
    /\ wpc = [s \in Nodes |-> [w \in Workers |->
                 IF s \in {ShB, ShC} /\ w = 1 THEN "loop" ELSE "none"]]

\* The source sends a fresh record with key k.
CallChainSend(s, k) ==
    /\ clock <= MaxChainSends
    /\ Send(s, Rec(k, clock, "None"))
    /\ clock' = clock + 1
    /\ UNCHANGED <<cache_size, events, flag, shedding, key_to_parents,
                   parent_to_keys, wpc, wkey, wevent, loop, coros, raised,
                   live>>

\* evict.remote(k) from a neighbouring pool runs on the event loop of s.
DeliverEvict(s, k) ==
    /\ loop[s] = "idle"
    /\ CallEvict(s, k)

NextChain ==
    \/ \E k \in ChainKeys : CallChainSend(ShA, k)
    \/ \E k \in ChainKeys : CallRetractKey(ShA, k)
    \/ CallRetractKey(ShB, "d")
    \/ DeliverEvict(ShB, "d")
    \/ \E s \in {ShB, ShC} : DeliverOnRecord(s)
    \/ \E s \in {ShB, ShC} : OnRecordSet(s)
    \/ \E s \in {ShB, ShC} : WorkerStep(s, 1)
    \/ \E s \in {ShB, ShC} : DeliverRetract(s)
    \/ \E s \in {ShB, ShC} : RetractStep(s)

SpecChain == InitChain /\ [][NextChain]_vars

\* The same behaviours under the scheduling of the code: a retract call in
\* flight is eventually delivered, and the event loop of a shard finishes
\* _on_record and keeps running the retract calls it has started.
SpecChainFair ==
    /\ SpecChain
    /\ \A s \in {ShB, ShC} :
          /\ WF_vars(OnRecordSet(s))
          /\ WF_vars(DeliverRetract(s))
          /\ WF_vars(RetractStep(s))

(***************************************************************************)
(* Properties of the cache, under SpecCache.                               *)
(***************************************************************************)
\* This step is a send on shard s after which key e has left the LRU.
SendEvicts(s, e) ==
    /\ \E k \in CacheKeys : CallSend(s, k)
    /\ e \in Range(lru[s])
    /\ e \notin Range(lru'[s])

\* C1: when a send on a shard with cache_size > 0 pushes the LRU past
\* cache_size, the evicted key is removed from the shard's own table as well
\* as from its LRU.
C1_EvictedKeyLeavesTable ==
    [][\A e \in Keys : SendEvicts(ShB, e) => table'[ShB][e] = None]_vars

\* C6: on a shard with cache_size > 0, after any sequence of send and evict
\* calls the LRU holds at most cache_size keys (and no key twice).
C6_LruWithinCacheSize ==
    \A s \in Nodes :
        cache_size[s] > 0 =>
            /\ Len(lru[s]) <= cache_size[s]
            /\ Cardinality(Range(lru[s])) = Len(lru[s])

\* C6 witness: the cache is full and a send has evicted a key.
C6_Witness ==
    /\ Len(lru[ShB]) = cache_size[ShB]
    /\ \E k \in CacheKeys : EvictMsg("A", k) \in issued

\* The time of the most recent send of key j on shard s, as the reference
\* LRU sees it during a send of key k: the key being sent is touched now,
\* every other key was last sent when the row the table holds was written.
LastSend(s, j, k) == IF j = k THEN clock ELSE table[s][j].time

\* C7: whenever send evicts a key, that key is the least recently sent of
\* the keys in the LRU, a re-send counting as the most recent send.
C7_EvictsLeastRecentlySent ==
    [][\A k \in CacheKeys : \A e \in Keys :
          (CallSend(ShB, k) /\ e \in Range(lru[ShB]) /\ e \notin Range(lru'[ShB]))
          => \A j \in (Range(lru[ShB]) \cup {k}) \ {e} :
                 /\ TableHas(table[ShB], e)
                 /\ LastSend(ShB, e, k) < LastSend(ShB, j, k)]_vars

\* C7 witness: x, y, x again, then z with cache_size 2 evicted y, not x.
C7_Witness ==
    /\ lru[ShB] = <<"x", "z">>
    /\ EvictMsg("A", "y") \in issued
    /\ table[ShB]["x"].time > table[ShB]["y"].time

\* C8: whenever send evicts key K, one evict(K) call is issued to the shard
\* owning K in every parent pool and in every child pool of the operator.
C8_EvictionReachesEveryPool ==
    [][\A e \in Keys :
          SendEvicts(ShB, e) =>
              \A pool \in Range(Parents("B")) \cup Range(Children("B")) :
                  LET m == Msg(<<pool, HashKey(e) % NumShards(pool)>>,
                               "evict", e, None, None)
                  IN  /\ m \in issued'
                      /\ m.to \in live => CopiesIn(m, net') = CopiesIn(m, net) + 1]_vars

\* C8 witness: z was evicted, and its owners in A, C (shard 2) and L were told.
C8_Witness ==
    /\ "z" \notin Range(lru[ShB])
    /\ Msg(<<"A", 0>>, "evict", "z", None, None) \in issued
    /\ Msg(<<"C", 2>>, "evict", "z", None, None) \in issued
    /\ Msg(<<"L", 0>>, "evict", "z", None, None) \in issued

\* C13: send(record) has written the record into the local table when it
\* forwards it; the record is enqueued (_on_record) on the owning shard, and
\* no other shard, of every child pool that is not lazy, and on no shard of
\* a lazy child pool.
C13_SendWritesThenForwards ==
    [][\A k \in CacheKeys :
          CallSend(ShB, k) =>
              /\ table'[ShB][k] = Rec(k, clock, "None")
              /\ \A sh \in Shards :
                    (\E m \in issued' : m.op = "_on_record" /\ m.to = sh)
                    <=> /\ sh[1] \in Range(Children("B"))
                        /\ ~IsLazy(sh[1])
                        /\ sh = ChooseActor(sh[1], k)
              /\ \A m \in issued' :
                    m.op = "_on_record" => m.rec = Rec(k, clock, "None")]_vars

\* C13 witness: a send of z forwarded the record to shard 2 of the eager
\* pool C, which owns z, while the row of z holds that record, and pushed
\* nothing to the lazy pool L.
C13_Witness ==
    /\ \E m \in issued :
          /\ m.op = "_on_record"
          /\ m.to = <<"C", 2>>
          /\ m.key = "z"
          /\ table[ShB]["z"] = m.rec
    /\ \A m \in issued : m.op = "_on_record" => m.to[1] # "L"

(***************************************************************************)
(* Properties of the worker loop, under SpecWorker.                        *)
(***************************************************************************)
\* C3: with a load-shedding policy that rejects every candidate, no record
\* is written for a key that has a current value in the table, and an event
\* whose lookup finds nothing is always processed.
C3_RejectingPolicyNeverOverwrites ==
    [][shedding[ShB] = "never_process" =>
          /\ \A k \in Keys :
                TableHas(table[ShB], k) => table'[ShB][k] = table[ShB][k]
          /\ \A w \in Workers :
                (WLookup(ShB, w) /\ ~TableHas(table[ShB], wevent[ShB][w].key))
                => wpc'[ShB][w] = "except"]_vars

\* C4: under the FIFO policy (and the default always_process load shedding)
\* the events of one key take effect in the order they were enqueued: a
\* key's row is never replaced by the record of an earlier-enqueued event.
C4_FifoEffectOrder ==
    [][shedding[ShB] = "always_process" =>
          \A k \in Keys :
              (TableHas(table[ShB], k) /\ TableHas(table'[ShB], k))
              => table'[ShB][k].time >= table[ShB][k].time]_vars

\* C5: no worker that has chosen a key from its snapshot of non-empty
\* queues is blocked in get() on that key's queue, emptied in between.
C5_ChosenQueueNotEmpty ==
    \A w \in Workers :
        wpc[ShB][w] = "get" => events[ShB][wkey[ShB][w]] # {}

\* The events pending on shard s, and the number of events its workers
\* have dequeued so far (the callers stamp the records 1, 2, ...).
Pending(s) == UNION {events[s][k] : k \in Keys}
Dequeued(s) == (clock - 1) - Cardinality(Pending(s))

Quiescent(s) ==
    /\ \A m \in BagToSet(net) : m.to # s
    /\ loop[s] = "idle"
    /\ coros[s] = <<>>
    /\ NonEmptyQueues(s) = {}
    /\ \A w \in Workers : wpc[s][w] \in {"none", "loop", "wait", "get"}

\* C2: once every call to the child B has been delivered and its queues are
\* drained, B holds no record derived from a parent key p that was retracted
\* on A and not sent again (A's table has no row for p).
C2_RetractionEventuallyConsistent ==
    Quiescent(ShB) =>
        \A p \in SourceKeys :
            ~TableHas(table[ShA], p) =>
                \A k \in Keys : table[ShB][k].src # p

\* C9: a retract iteration whose repaired record is a Record with a key
\* other than the downstream key being repaired fails with an assertion
\* error, leaving the table unmodified and notifying no child.
C9_MismatchedRepairAborts ==
    [][\A i \in 1..Len(coros[ShB]) :
          \A rec \in OnDeleteResults(coros[ShB][i].deleted) :
              (/\ RetractIncremental(ShB, i, rec)
               /\ rec.key # CoKey(ShB, coros[ShB][i]))
              => /\ table' = table
                 /\ net' = net
                 /\ issued' = issued
                 /\ "AssertionError" \in raised'[ShB]
                 /\ Len(coros'[ShB]) = Len(coros[ShB]) - 1]_vars

\* C9 witness: a retract on B failed its assertion while B still holds the
\* row of d that the mismatched repair was meant for.
C9_Witness ==
    /\ "AssertionError" \in raised[ShB]
    /\ TableHas(table[ShB], "d")
    /\ ~TableHas(table[ShB], "x")

\* C10: when on_delete_record gives no Record and a parent record of the
\* downstream key can still be fetched, the key's row is replaced by the
\* recomputed record and every child pool is sent retract(old, recomputed).
C10_FallbackRecomputesRow ==
    [][\A i \in 1..Len(coros[ShB]) :
          LET key == CoKey(ShB, coros[ShB][i])
          IN  (/\ coros[ShB][i].pc = "await"
               /\ RetractResume(ShB, i)
               /\ TableHas(table[ShB], key)
               /\ Fetched(ShB, key) # {})
              => /\ TableHas(table'[ShB], key)
                 /\ \A c \in Range(Children("B")) :
                      \E m \in issued' :
                          /\ m.to = ChooseActor(c, key)
                          /\ m.op = "retract"
                          /\ m.rec = table[ShB][key]
                          /\ m.upd = table'[ShB][key]]_vars

\* C11: when B holds d, derived only from parent key p, and a retract of
\* the deleted p finds no repair and no parent record to fetch for d, the
\* call deletes d, sends retract(old d, None) to every child pool and does
\* not raise.  (An iteration after the first belongs to a call that found
\* d's row and resolved it.)
C11_ZeroParentsDeletesAndNotifies ==
    [][\A i \in 1..Len(coros[ShB]) :
          (/\ RetractResume(ShB, i)
           /\ coros[ShB][i].deleted.key = "p"
           /\ Range(CoKeys(ShB, coros[ShB][i])) = {"d"}
           /\ Range(key_to_parents[ShB]["d"]) = {"p"}
           /\ Fetched(ShB, "d") = {}
           /\ (TableHas(table[ShB], "d") \/ coros[ShB][i].idx > 1))
          => /\ ~TableHas(table'[ShB], "d")
             /\ Len(coros'[ShB]) = Len(coros[ShB])
             /\ TableHas(table[ShB], "d") =>
                  \A c \in Range(Children("B")) :
                      RetractMsg(c, "d", table[ShB]["d"], None) \in issued']_vars

\* C17: retract handles every key recorded under the deleted parent key:
\* each iteration whose repaired record passes the key assertion resolves
\* the key's row and sends retract(old, new) to the owning shard of every
\* child pool, and the call goes on to the next key; also when the key is
\* recorded more than once or its row is already absent.
C17_RetractHandlesEveryKey ==
    [][\A i \in 1..Len(coros[ShB]) :
          LET c == coros[ShB][i]
              key == CoKey(ShB, c)
          IN  (\/ RetractResume(ShB, i)
               \/ \E rec \in OnDeleteResults(c.deleted) :
                     RetractIncremental(ShB, i, rec) /\ rec.key = key)
              => /\ Len(coros'[ShB]) = Len(coros[ShB])
                 /\ coros'[ShB][i].idx = c.idx + 1
                 /\ \A ch \in Range(Children("B")) :
                       \E m \in issued' :
                           /\ m.op = "retract"
                           /\ m.to = ChooseActor(ch, key)
                           /\ m.rec = table[ShB][key]
                           /\ m.upd = table'[ShB][key]]_vars

\* The number of occurrences of e in a list, and list a being a prefix of
\* list b.
Count(seq, e) == Cardinality({i \in 1..Len(seq) : seq[i] = e})
IsPrefix(a, b) == Len(a) <= Len(b) /\ SubSeq(b, 1, Len(a)) = a

\* C19: the lineage maps are append-only and mutually inverse: no step
\* removes or reorders an entry of either map, and after every step derived
\* key d occurs in parent_to_keys[p] exactly as often as p occurs in
\* key_to_parents[d].
C19_LineageInverseAppendOnly ==
    [][/\ \/ key_to_parents'[ShB] = key_to_parents[ShB]
          \/ \A k \in Keys :
                IsPrefix(key_to_parents[ShB][k], key_to_parents'[ShB][k])
       /\ \/ parent_to_keys'[ShB] = parent_to_keys[ShB]
          \/ \A k \in Keys :
                IsPrefix(parent_to_keys[ShB][k], parent_to_keys'[ShB][k])
       /\ \A p \in Keys : \A d \in Range(parent_to_keys'[ShB][p]) :
             Count(parent_to_keys'[ShB][p], d) = Count(key_to_parents'[ShB][d], p)
       /\ \A d \in Keys : \A p \in Range(key_to_parents'[ShB][d]) :
             Count(parent_to_keys'[ShB][p], d) = Count(key_to_parents'[ShB][d], p)]_vars

\* C19 witness: B derived d from p and from q, a retract call has deleted
\* d and returned, and both maps still record both derivations.
C19_Witness ==
    /\ key_to_parents[ShB]["d"] \in {<<"p", "q">>, <<"q", "p">>}
    /\ parent_to_keys[ShB]["p"] = <<"d">>
    /\ parent_to_keys[ShB]["q"] = <<"d">>
    /\ ~TableHas(table[ShB], "d")
    /\ coros[ShB] = <<>>
    /\ loop[ShB] = "idle"

(***************************************************************************)
(* Properties of failing event work, under SpecFailure.                    *)
(***************************************************************************)
\* C12: a failure raised while a worker processes an event does not end the
\* worker: no worker thread of the shard ever leaves its loop, so the
\* number of live workers never decreases.
C12_WorkersSurviveFailures ==
    \A w \in Workers : wpc[ShB][w] # "dead"

\* C20: the work of a dequeued event (on_record and send) is executed at
\* most once: no step executes the work of an event whose work has already
\* been executed, whether the lookup found a row, raised KeyError, or the
\* work itself raised.
C20_WorkExecutedAtMostOnce ==
    [][\A w \in Workers :
          ~(wpc[ShB][w] = "again" /\ WProcess(ShB, w))]_vars

(***************************************************************************)
(* Properties of the chain, under SpecChain.                               *)
(***************************************************************************)
\* C14: retract_key(key) on a shard whose table holds key deletes the row
\* and issues exactly one retract call, carrying the deleted record, to the
\* shard owning key in each child pool, lazy or not, and no other call; the
\* row is gone when the calls are in flight.
C14_RetractKeyDeletesThenNotifies ==
    [][\A s \in {ShA, ShB} : \A k \in Keys :
          (CallRetractKey(s, k) /\ TableHas(table[s], k)) =>
              /\ ~TableHas(table'[s], k)
              /\ \A j \in Keys \ {k} : table'[s][j] = table[s][j]
              /\ issued' = {Msg(ChooseActor(c, k), "retract", k, table[s][k], None) :
                              c \in Range(Children(s[1]))}
              /\ \A m \in issued' :
                    CopiesIn(m, net') =
                        CopiesIn(m, net) + (IF m.to \in live THEN 1 ELSE 0)
              /\ \A m \in BagToSet(net') \ issued' :
                    CopiesIn(m, net') = CopiesIn(m, net)]_vars

\* C14 witness: B retracted d, and both the eager pool C and the lazy pool
\* L were sent the deleted record.
C14_Witness ==
    /\ ~TableHas(table[ShB], "d")
    /\ \E t \in 1..MaxChainSends :
          /\ Msg(<<"C", 2>>, "retract", "d", Rec("d", t, "p"), None) \in issued
          /\ Msg(<<"L", 0>>, "retract", "d", Rec("d", t, "p"), None) \in issued

\* C15: evict(key) removes key from the shard's table and LRU and changes
\* nothing else: no call is issued to any pool, and the lineage maps, the
\* pending queues, the other rows and the other shards stay as they were.
C15_EvictIsLocal ==
    [][\A k \in Keys :
          CallEvict(ShB, k) =>
              /\ ~TableHas(table'[ShB], k)
              /\ k \notin Range(lru'[ShB])
              /\ lru'[ShB] = SelectSeq(lru[ShB], LAMBDA e : e # k)
              /\ \A j \in Keys \ {k} : table'[ShB][j] = table[ShB][j]
              /\ \A s \in Nodes \ {ShB} :
                    table'[s] = table[s] /\ lru'[s] = lru[s]
              /\ net' = net
              /\ issued' = issued
              /\ key_to_parents' = key_to_parents
              /\ parent_to_keys' = parent_to_keys
              /\ events' = events
              /\ coros' = coros]_vars

\* C15 witness: B derived d and forwarded it to C, and no handler has run
\* a send or a retraction since; d has left B's table and LRU, which only
\* an evict does, while B's lineage still records d, the record is pending
\* on C and the retract call for p is still in flight to B.
C15_Witness ==
    /\ issued = {OnRecordMsg("C", Rec("d", 1, "p"))}
    /\ ~TableHas(table[ShB], "d")
    /\ lru[ShB] = <<>>
    /\ NonEmptyQueues(ShC) = {"d"}
    /\ parent_to_keys[ShB]["p"] = <<"d">>
    /\ InFlight("retract", ShB) # {}

\* No retract call is in flight to shard s or running on it.
RetractsResolved(s) ==
    /\ InFlight("retract", s) = {}
    /\ coros[s] = <<>>

\* C18: retraction terminates: retract_key causes finitely many retract
\* calls down the acyclic graph, and eventually no retract call is in flight
\* or pending on any shard it touched.  Checked under SpecChainFair.
C18_RetractionTerminates ==
    <>[](RetractsResolved(ShB) /\ RetractsResolved(ShC))

\* C18 witness: a retraction went down the chain: C derived d and no longer
\* holds it, and every retract call has been delivered and has returned.
C18_Witness ==
    /\ parent_to_keys[ShC]["d"] # <<>>
    /\ ~TableHas(table[ShC], "d")
    /\ ~TableHas(table[ShB], "d")
    /\ RetractsResolved(ShB)
    /\ RetractsResolved(ShC)

====
